---- MODULE Spec2Model ----
(***************************************************************************)
(* AutoDrawer: the shared run state (core/state_manager.py), the keyboard  *)
(* listener thread (input/keyboard_listener.py), the execution thread      *)
(* (core/auto_drawer.py, core/process_controller.py, input/                *)
(* mouse_controller.py) and the pure helpers it uses (utils/helpers.py,    *)
(* image_processing/color_matcher.py).                                     *)
(***************************************************************************)
EXTENDS Integers, Sequences, FiniteSets, TLC

VARIABLES
    running,            \* StateManager._running
    paused,             \* StateManager._paused
    kbd,                \* KeyboardListener.listener is running
    pc,                 \* position of the execution thread
    wwpCaller,          \* who called wait_while_paused
    clk,                \* purpose of the mouse.click call in progress
    cd,                 \* countdown variable i of execute()
    idx,                \* number of loop iterations completed in clear/draw
    pickFor,            \* purpose of the mouse.get_click call in progress
    click_coords,       \* MouseController.click_coords
    area,               \* get_area: the corners picked so far
    clear_first,        \* argument of run()
    canvas_auto,        \* log: detect_canvas found the canvas
    canvas_top_left,    \* CanvasDetector.canvas_top_left
    canvas_bottom_right,\* CanvasDetector.canvas_bottom_right
    cell_cols,          \* CanvasDetector.cell_cols
    cell_rows,          \* CanvasDetector.cell_rows
    eraser_pos,         \* PaletteAnalyzer.eraser_pos
    color_map,          \* draw_image: color_map
    optimized_pixels,   \* draw_image: optimized_pixels
    clicks,             \* log of the pyautogui.click calls made
    phaseDone,          \* log: which phases returned normally
    stopPhase,          \* log: the phase in which stop() took effect
    stopInWait,         \* log: stop() took effect inside a paused wait
    stopClicks,         \* log: Len(clicks) when stop() took effect
    seenRunning,        \* log: what the last is_running() poll returned
    seenPaused,         \* log: what the last is_paused() poll returned
    pauseClicked,       \* log: clicks made since the state became paused
    optIn, optOut,      \* optimize_drawing_order: argument and result
    mapColors, mapPalette, mapOut,  \* map_colors: arguments and result
    candidates,         \* detect_canvas: the boxes of the cell candidates
    assume_portrait,    \* detect_canvas: canvas_detection.assume_portrait
    gridSized,          \* detect_canvas: (cell_cols, cell_rows), lines 124-125
    gridOriented,       \* detect_canvas: (cell_cols, cell_rows), line 134
    circles,            \* detect_palette: circles_uint, line 71
    paletteOut,         \* detect_palette: the tuple it returns
    cfgIn,              \* ConfigLoader.config before _validate_config
    cfgNew,             \* ConfigLoader.update: new_config
    cfgOut,             \* ConfigLoader.config after _validate_config
    clearPoints,        \* clear_canvas: the points of its cell clicks, in order
    fn                  \* which pure function has been applied

vars == <<running, paused, kbd, pc, wwpCaller, clk, cd, idx, pickFor,
          click_coords, area, clear_first, canvas_auto,
          canvas_top_left, canvas_bottom_right, cell_cols, cell_rows,
          eraser_pos, color_map, optimized_pixels, clicks, phaseDone,
          stopPhase, stopInWait, stopClicks, seenRunning, seenPaused,
          pauseClicked,
          optIn, optOut, mapColors, mapPalette, mapOut,
          candidates, assume_portrait, gridSized, gridOriented,
          circles, paletteOut, cfgIn, cfgNew, cfgOut, clearPoints, fn>>

runVars == <<running, paused, kbd, pc, wwpCaller, clk, cd, idx, pickFor,
             click_coords, area, clear_first, canvas_auto,
             canvas_top_left, canvas_bottom_right, cell_cols, cell_rows,
             eraser_pos, color_map, optimized_pixels, clicks, phaseDone,
             stopPhase, stopInWait, stopClicks, seenRunning, seenPaused,
             pauseClicked>>

pureVars == <<optIn, optOut, mapColors, mapPalette, mapOut,
              candidates, assume_portrait, gridSized, gridOriented,
              circles, paletteOut, cfgIn, cfgNew, cfgOut, clearPoints, fn>>

(***************************************************************************)
(* Bounds and input universes                                              *)
(***************************************************************************)
MaxCells == 3       \* longest pixel list given to optimize_drawing_order
MaxPalette == 2     \* longest palette_data list given to map_colors
MaxCols == 2        \* largest cell_cols
MaxRows == 3        \* largest cell_rows
MaxPixels == 3      \* largest number of pixels of the downsampled image
MaxCandidates == 2  \* longest list of cell candidates given to detect_canvas

None == <<>>        \* Python None for tuple-valued fields; empty list/dict

Red == <<255, 0, 0>>
Green == <<0, 255, 0>>
Gray == <<128, 128, 128>>
NearRed == <<250, 10, 10>>
NearGreen == <<10, 250, 10>>
NearBlue == <<10, 10, 250>>

ImageColors == {Red, Green, Gray}
PaletteColors == {NearRed, NearGreen, NearBlue}
SwatchPoints == {<<5, 5>>, <<15, 15>>}

SeqsUpTo(S, n) == UNION {[1..k -> S] : k \in 0..n}

Min(a, b) == IF a < b THEN a ELSE b
Max(a, b) == IF a > b THEN a ELSE b

(***************************************************************************)
(* utils/helpers.py: optimize_drawing_order                                *)
(* A pixel is <<x, y, color>> (Python p[0], p[1], p[2]); a color <<r,g,b>>.*)
(***************************************************************************)
\* Python's ordering of tuples of integers, here of length 3
TupleLess(a, b) ==
    \/ a[1] < b[1]
    \/ a[1] = b[1] /\ a[2] < b[2]
    \/ a[1] = b[1] /\ a[2] = b[2] /\ a[3] < b[3]

\* key=lambda p: (p[2], p[1], p[0])
SortKey(p) == <<p[3], p[2], p[1]>>

\* (color, y, x) tuples compare color first (itself a tuple), then y, then x
KeyLess(k1, k2) ==
    \/ TupleLess(k1[1], k2[1])
    \/ k1[1] = k2[1] /\ k1[2] < k2[2]
    \/ k1[1] = k2[1] /\ k1[2] = k2[2] /\ k1[3] < k2[3]

\* a sort whose key puts the position before the color: (x, y, color)
SortsBeforePositionFirst(p, q) ==
    \/ p[1] < q[1]
    \/ p[1] = q[1] /\ p[2] < q[2]
    \/ p[1] = q[1] /\ p[2] = q[2] /\ TupleLess(p[3], q[3])

\* p sorts strictly before q
SortsBefore(p, q) == KeyLess(SortKey(p), SortKey(q))

\* stable insertion: p goes after every element that does not sort after it
RECURSIVE InsertSorted(_, _)
InsertSorted(p, s) ==
    IF s = <<>> THEN <<p>>
    ELSE IF SortsBefore(p, Head(s)) THEN <<p>> \o s
    ELSE <<Head(s)>> \o InsertSorted(p, Tail(s))

\* sorted(pixels, key=...): a stable sort, built from the right so that equal
\* keys keep their input order
RECURSIVE optimize_drawing_order(_)
optimize_drawing_order(pixels) ==
    IF pixels = <<>> THEN <<>>
    ELSE LET n == Len(pixels)
         IN  InsertSorted(pixels[n], optimize_drawing_order(SubSeq(pixels, 1, n - 1)))

(***************************************************************************)
(* image_processing/color_matcher.py: ColorMatcher.map_colors              *)
(***************************************************************************)
\* skimage.color.rgb2lab (sRGB, D65, 2-degree observer) on the colors of the
\* model, as <<L, a, b>> in tenths
rgb2lab(c) ==
    CASE c = Red       -> <<532, 801, 672>>
      [] c = Green     -> <<877, -862, 832>>
      [] c = Gray      -> <<536, 0, 0>>
      [] c = NearRed   -> <<525, 783, 638>>
      [] c = NearGreen -> <<862, -845, 812>>
      [] c = NearBlue  -> <<322, 765, -1052>>

\* cdist(..., metric="euclidean"), squared: the order of the distances is kept
Distance(c1, c2) ==
    LET p == rgb2lab(c1)
        q == rgb2lab(c2)
    IN  (p[1] - q[1]) * (p[1] - q[1]) + (p[2] - q[2]) * (p[2] - q[2])
        + (p[3] - q[3]) * (p[3] - q[3])

\* an argmin that keeps the last of several minimal entries
ArgMinLast(c, palette_data) ==
    CHOOSE i \in 1..Len(palette_data) :
        /\ \A j \in 1..Len(palette_data) :
              Distance(c, palette_data[i][1]) <= Distance(c, palette_data[j][1])
        /\ \A j \in (i + 1)..Len(palette_data) :
              Distance(c, palette_data[j][1]) > Distance(c, palette_data[i][1])

\* np.argmin(distances, axis=1) for the row of color c: the first minimal index
ArgMin(c, palette_data) ==
    CHOOSE i \in 1..Len(palette_data) :
        /\ \A j \in 1..Len(palette_data) :
              Distance(c, palette_data[i][1]) <= Distance(c, palette_data[j][1])
        /\ \A j \in 1..(i - 1) :
              Distance(c, palette_data[j][1]) > Distance(c, palette_data[i][1])

\* a matcher that also gives up when the palette has a single entry
map_colors_needs_two(image_colors, palette_data) ==
    IF image_colors = {} \/ Len(palette_data) <= 1 THEN None
    ELSE [c \in image_colors |-> palette_data[ArgMin(c, palette_data)][2]]

\* map_colors: a dict from image color to palette position; palette_data is a
\* list of <<color, position>>
map_colors(image_colors, palette_data) ==
    IF image_colors = {} \/ palette_data = <<>> THEN None
    ELSE [c \in image_colors |-> palette_data[ArgMin(c, palette_data)][2]]

(***************************************************************************)
(* core/state_manager.py: StateManager. A state is the pair of flags; each *)
(* method runs under self._lock, so each is one atomic step.               *)
(***************************************************************************)
RunState == [running |-> running, paused |-> paused]

\* a stop that leaves the pause flag as it is
stop_keeps_pause(s) ==
    IF s.running THEN [running |-> FALSE, paused |-> s.paused] ELSE s

\* StateManager.stop
stop(s) ==
    IF s.running THEN [running |-> FALSE, paused |-> FALSE] ELSE s

\* a toggle that treats leaving pause as a restart
toggle_pause_restarts(s) ==
    [running |-> s.running \/ s.paused, paused |-> ~s.paused]

\* StateManager.toggle_pause
toggle_pause(s) == [running |-> s.running, paused |-> ~s.paused]

SetRunState(s) == running' = s.running /\ paused' = s.paused

(***************************************************************************)
(* Logs kept beside the program state: where the execution thread was when *)
(* stop() took effect, and what its last polls of the state returned       *)
(***************************************************************************)
ClearingKinds == {"eraser", "clear_cell"}
DrawingKinds == {"swatch", "draw_cell"}

SetupPcs == {"setup", "set_canvas", "setup_palette", "pick_wait", "pick_check",
             "setup_parameters"}
WaitPcs == {"wwp_paused", "wwp_running", "wwp_return"}
ClickPcs == {"clk_running", "clk_paused", "clk_do"}

pickVars == <<pickFor, click_coords, area>>
stopLog == <<stopPhase, stopInWait, stopClicks>>
stopVars == <<stopPhase, stopInWait, stopClicks, pauseClicked>>
seenVars == <<seenRunning, seenPaused>>

\* the phase of run() the execution thread is in; "pick" is the part of the
\* setup spent in get_click's listener.join()
Phase ==
    CASE pc = "pick_wait" -> "pick"
      [] pc \in SetupPcs -> "setup"
      [] pc \in {"after_setup", "preview_start", "preview", "preview_key",
                 "after_preview"} -> "preview"
      [] pc \in WaitPcs /\ wwpCaller = "preview" -> "preview"
      [] pc \in {"cd_running", "cd_paused"} -> "countdown"
      [] pc \in WaitPcs /\ wwpCaller = "countdown" -> "countdown"
      [] pc \in {"clear_entry", "clear_iter"} -> "clearing"
      [] pc \in WaitPcs /\ wwpCaller = "clear_iter" -> "clearing"
      [] pc \in (WaitPcs \cup ClickPcs) /\ clk \in ClearingKinds -> "clearing"
      [] pc \in {"draw_entry", "draw_iter"} -> "drawing"
      [] pc \in WaitPcs /\ wwpCaller = "draw_iter" -> "drawing"
      [] pc \in (WaitPcs \cup ClickPcs) /\ clk \in DrawingKinds -> "drawing"
      [] OTHER -> "end"

\* the execution thread is in the loop of wait_while_paused and the state is
\* paused
WaitingInPause == pc \in {"wwp_paused", "wwp_running"} /\ paused

\* state.stop() is called; the logs are written when it takes effect
StopNow ==
    /\ SetRunState(stop(RunState))
    /\ IF running
       THEN /\ stopPhase' = Phase
            /\ stopInWait' = WaitingInPause
            /\ stopClicks' = Len(clicks)
       ELSE UNCHANGED stopLog
    /\ pauseClicked' = 0

\* the execution thread calls state.is_running()
PollRunning ==
    /\ seenRunning' = IF running THEN "yes" ELSE "no"
    /\ UNCHANGED seenPaused

\* the execution thread calls state.is_paused()
PollPaused ==
    /\ seenPaused' = IF paused THEN "yes" ELSE "no"
    /\ UNCHANGED seenRunning

\* a loop iteration of clear_canvas or draw_image begins: nothing polled yet
NewIteration == seenRunning' = "none" /\ seenPaused' = "none"

(***************************************************************************)
(* input/keyboard_listener.py: the listener thread                         *)
(***************************************************************************)
\* _on_press(Key.esc): state.stop(), and returning False ends the listener
KeyEsc ==
    /\ kbd
    /\ StopNow
    /\ kbd' = FALSE
    /\ UNCHANGED <<pc, wwpCaller, clk, cd, idx, clear_first, canvas_auto,
                   canvas_top_left, canvas_bottom_right, cell_cols, cell_rows,
                   eraser_pos, color_map, optimized_pixels, clicks, phaseDone>>
    /\ UNCHANGED <<pickVars, seenVars, pureVars>>

\* _on_press(Key.space): state.toggle_pause(), the listener goes on
KeySpace ==
    /\ kbd
    /\ SetRunState(toggle_pause(RunState))
    /\ UNCHANGED <<kbd, pc, wwpCaller, clk, cd, idx, clear_first, canvas_auto,
                   canvas_top_left, canvas_bottom_right, cell_cols, cell_rows,
                   eraser_pos, color_map, optimized_pixels, clicks, phaseDone>>
    /\ pauseClicked' = 0
    /\ UNCHANGED <<pickVars, stopLog, seenVars, pureVars>>

(***************************************************************************)
(* capture/canvas_detector.py: the grid of a canvas                        *)
(***************************************************************************)
MinCellSize == 5        \* cell_min_width and cell_min_height
MaxCellSize == 100      \* cell_max_width and cell_max_height
FallbackCellSize == 20  \* fallback_cell_size

RECURSIVE Sum(_)
Sum(s) == IF s = <<>> THEN 0 ELSE Head(s) + Sum(Tail(s))

\* int(np.mean(values)) for positive integers
MeanInt(values) == Sum(values) \div Len(values)

\* a candidate is <<x1, y1, x2, y2>>
Widths(cands) == [i \in 1..Len(cands) |-> cands[i][3] - cands[i][1]]
Heights(cands) == [i \in 1..Len(cands) |-> cands[i][4] - cands[i][2]]

\* min(...) and max(...) of a non-empty collection
Least(S) == CHOOSE m \in S : \A n \in S : m <= n
Greatest(S) == CHOOSE m \in S : \A n \in S : m >= n

\* detect_canvas lines 114-120: the rectangle around all candidates
BoundingBox(cands) ==
    LET I == 1..Len(cands)
    IN  << << Least({cands[i][1] : i \in I}), Least({cands[i][2] : i \in I}) >>,
           << Greatest({cands[i][3] : i \in I}), Greatest({cands[i][4] : i \in I}) >> >>

\* a count that rounds the quotient up
GridCountRoundsUp(extent, cell) == Max(1, (extent + cell - 1) \div cell)

\* max(1, extent // cell)
GridCount(extent, cell) == Max(1, extent \div cell)

\* detect_canvas lines 108-125: (cell_cols, cell_rows) before the orientation
\* is looked at
GridSizing(cands) ==
    LET box == BoundingBox(cands)
    IN  << GridCount(box[2][1] - box[1][1], MeanInt(Widths(cands))),
           GridCount(box[2][2] - box[1][2], MeanInt(Heights(cands))) >>

\* a correction that swaps whenever a portrait canvas is assumed
OrientationAlwaysSwaps(portrait, grid) ==
    IF portrait THEN <<grid[2], grid[1]>> ELSE grid

\* detect_canvas lines 127-134
OrientationCorrection(portrait, grid) ==
    IF portrait /\ grid[1] > grid[2] THEN <<grid[2], grid[1]>> ELSE grid

\* set_canvas lines 160-190 for a captured image of w x h: the grid from the
\* mean size of the cells found in it, or from the fallback size when none is
\* found. A cell found is wider and higher than MinCellSize, narrower and
\* lower than MaxCellSize, and no larger than the image.
ManualGrids(w, h) ==
    { <<GridCount(w, FallbackCellSize), GridCount(h, FallbackCellSize)>> }
    \cup { <<GridCount(w, aw), GridCount(h, ah)>> :
             aw \in (MinCellSize + 1)..Min(w, MaxCellSize - 1),
             ah \in (MinCellSize + 1)..Min(h, MaxCellSize - 1) }

\* cell candidates detect_canvas can find on the screen: all lie in
\* ((0,0),(20,20)), each is between 0.8 and 1.2 times as wide as high
RunCandidates ==
    { << <<0, 0, 20, 20>> >>,
      << <<0, 0, 10, 10>>, <<10, 10, 20, 20>> >>,
      << <<0, 0, 11, 10>>, <<9, 10, 20, 20>> >>,
      << <<0, 0, 10, 11>>, <<10, 9, 20, 20>> >> }

PickPoints == { <<3, 4>>, <<24, 29>> }

\* palette_analyzer.py: the centres of the circles detect_palette keeps, from
\* left to right. Its eraser is the last of them (line 92), and extract_colors
\* (lines 181-201) gives one palette entry, clicked at its centre, for every
\* kept circle whose sample area is not empty, the last circle included.
RunCircles == << <<5, 5>>, <<15, 15>> >>
EraserPoints == { RunCircles[Len(RunCircles)] }

(***************************************************************************)
(* The execution thread: its control state is the record Ctl               *)
(***************************************************************************)
CountdownStart == 5

RunImageColors == {Red, Green}
RunPalettes == { <<>>,
                 << <<NearGreen, <<15, 15>>>> >>,
                 << <<NearRed, <<5, 5>>>>, <<NearGreen, <<15, 15>>>> >> }

Ctl == [pc |-> pc, wwpCaller |-> wwpCaller, clk |-> clk, cd |-> cd,
        idx |-> idx, phaseDone |-> phaseDone]

Go(c) ==
    /\ pc' = c.pc
    /\ wwpCaller' = c.wwpCaller
    /\ clk' = c.clk
    /\ cd' = c.cd
    /\ idx' = c.idx
    /\ phaseDone' = c.phaseDone

dataVars == <<clear_first, canvas_auto, canvas_top_left, canvas_bottom_right,
              cell_cols, cell_rows, eraser_pos, color_map, optimized_pixels>>

\* what a step of the execution thread that only polls or branches leaves alone
ControlOnly ==
    /\ UNCHANGED <<running, paused, kbd, clicks>>
    /\ UNCHANGED <<dataVars, pickVars, stopVars, pureVars>>

\* execute() returns to run(), line 139
ExecuteReturns(c) == [c EXCEPT !.pc = "final", !.clk = "none", !.wwpCaller = "none"]

\* entering state.wait_while_paused() from `who`
CallWait(c, who) == [c EXCEPT !.pc = "wwp_paused", !.wwpCaller = who]

\* entering mouse.click() for `what`
CallClick(c, what) == [c EXCEPT !.pc = "clk_running", !.clk = what, !.wwpCaller = "none"]

\* execute(): the end of one countdown iteration; after the last one the
\* clearing or the drawing starts
CountdownNext(c) ==
    IF c.cd > 1 THEN [c EXCEPT !.pc = "cd_running", !.cd = c.cd - 1, !.wwpCaller = "none"]
    ELSE [c EXCEPT !.pc = IF clear_first THEN "clear_entry" ELSE "draw_entry",
                   !.cd = 0, !.wwpCaller = "none",
                   !.phaseDone = c.phaseDone \cup {"countdown"}]

\* a coordinate without the half step: the cell's corner
ScreenCoordCorner(origin, limit, n, k) ==
    LET extent == limit - origin
        raw == (n * origin + k * extent) \div n
    IN  Min(Max(raw, origin), limit - 1)

\* int(origin + k * step + step / 2) with step = extent / n, clamped to
\* origin .. limit - 1. For the rectangles and grids the model uses (n up to
\* MaxPlan + 1) the double-precision value of the Python expression is the
\* exact quotient's floor.
ScreenCoord(origin, limit, n, k) ==
    LET extent == limit - origin
        raw == (2 * n * origin + (2 * k + 1) * extent) \div (2 * n)
    IN  Min(Max(raw, origin), limit - 1)

\* the screen point clicked for grid cell (x, y)
CellPoint(x, y) ==
    << ScreenCoord(canvas_top_left[1], canvas_bottom_right[1], cell_cols, x),
       ScreenCoord(canvas_top_left[2], canvas_bottom_right[2], cell_rows, y) >>

\* the point of the click in progress
ClickPoint(what, i) ==
    CASE what = "eraser" -> eraser_pos
      [] what = "clear_cell" -> CellPoint(i % cell_cols, i \div cell_cols)
      [] what = "swatch" -> color_map[optimized_pixels[i + 1][3]]
      [] what = "draw_cell" -> CellPoint(optimized_pixels[i + 1][1], optimized_pixels[i + 1][2])

\* a click loop that tries a failed click again
AfterClickRetry(c, ok) ==
    CASE c.clk = "eraser" ->
            IF ok THEN [c EXCEPT !.pc = "clear_iter", !.idx = 0, !.clk = "none"]
            ELSE ExecuteReturns(c)
      [] c.clk = "clear_cell" ->
            IF ok THEN [c EXCEPT !.pc = "clear_iter", !.idx = c.idx + 1, !.clk = "none"]
            ELSE [c EXCEPT !.pc = "clk_do"]
      [] c.clk = "swatch" ->
            IF ok THEN CallClick(c, "draw_cell") ELSE [c EXCEPT !.pc = "clk_do"]
      [] c.clk = "draw_cell" ->
            IF ok THEN [c EXCEPT !.pc = "draw_iter", !.idx = c.idx + 1, !.clk = "none"]
            ELSE [c EXCEPT !.pc = "clk_do"]

\* a caller that goes on to the next click whatever the result
AfterClickGoesOn(c, ok) ==
    CASE c.clk = "eraser" -> [c EXCEPT !.pc = "clear_iter", !.idx = 0, !.clk = "none"]
      [] c.clk = "clear_cell" ->
            [c EXCEPT !.pc = "clear_iter", !.idx = c.idx + 1, !.clk = "none"]
      [] c.clk = "swatch" -> CallClick(c, "draw_cell")
      [] c.clk = "draw_cell" ->
            [c EXCEPT !.pc = "draw_iter", !.idx = c.idx + 1, !.clk = "none"]

\* what the caller of mouse.click() / select_color() does with its result
AfterClick(c, ok) ==
    CASE c.clk = "eraser" ->        \* clear_canvas, lines 290-291
            IF ok THEN [c EXCEPT !.pc = "clear_iter", !.idx = 0, !.clk = "none"]
            ELSE ExecuteReturns(c)
      [] c.clk = "clear_cell" ->    \* clear_canvas, lines 315-318
            IF ok THEN [c EXCEPT !.pc = "clear_iter", !.idx = c.idx + 1, !.clk = "none"]
            ELSE ExecuteReturns(c)
      [] c.clk = "swatch" ->        \* draw_image, lines 388-399
            IF ok THEN CallClick(c, "draw_cell") ELSE ExecuteReturns(c)
      [] c.clk = "draw_cell" ->     \* draw_image, lines 399-402
            IF ok THEN [c EXCEPT !.pc = "draw_iter", !.idx = c.idx + 1, !.clk = "none"]
            ELSE ExecuteReturns(c)

\* a caller that goes on whatever wait_while_paused() returned
AfterWaitGoesOn(c, ok) ==
    CASE c.wwpCaller = "preview" -> [c EXCEPT !.pc = "preview", !.wwpCaller = "none"]
      [] c.wwpCaller = "countdown" -> CountdownNext(c)
      [] c.wwpCaller = "clear_iter" -> CallClick(c, "clear_cell")
      [] c.wwpCaller = "draw_iter" ->
            IF optimized_pixels[c.idx + 1][3] \notin DOMAIN color_map
            THEN [c EXCEPT !.pc = "draw_iter", !.idx = c.idx + 1, !.wwpCaller = "none"]
            ELSE CallClick(c, "swatch")
      [] c.wwpCaller = "click" -> [c EXCEPT !.pc = "clk_do", !.wwpCaller = "none"]

\* what the caller of wait_while_paused() does with its result
AfterWait(c, ok) ==
    CASE c.wwpCaller = "preview" -> [c EXCEPT !.pc = "preview", !.wwpCaller = "none"]
      [] c.wwpCaller = "countdown" ->
            IF ok THEN CountdownNext(c) ELSE ExecuteReturns(c)
      [] c.wwpCaller = "clear_iter" ->
            IF ok THEN CallClick(c, "clear_cell") ELSE ExecuteReturns(c)
      [] c.wwpCaller = "draw_iter" ->
            IF ~ok THEN ExecuteReturns(c)
            ELSE IF optimized_pixels[c.idx + 1][3] \notin DOMAIN color_map
                 THEN [c EXCEPT !.pc = "draw_iter", !.idx = c.idx + 1, !.wwpCaller = "none"]
                 ELSE CallClick(c, "swatch")
      [] c.wwpCaller = "click" ->
            IF ok THEN [c EXCEPT !.pc = "clk_do", !.wwpCaller = "none"]
            ELSE AfterClick([c EXCEPT !.wwpCaller = "none"], FALSE)

\* ---- core/process_controller.py: ProcessController.setup ----

\* setup_canvas lines 110-116: detect_canvas finds the canvas and leaves its
\* rectangle and its grid in the detector (canvas_detector.py lines 108-140;
\* assume_portrait is True, the detector having no config_loader), or finds
\* nothing, and get_area asks for the first corner
DetectCanvas ==
    /\ pc = "setup"
    /\ \/ \E cands \in RunCandidates :
             LET box == BoundingBox(cands)
                 grid == OrientationCorrection(TRUE, GridSizing(cands))
             IN  /\ canvas_top_left' = box[1]
                 /\ canvas_bottom_right' = box[2]
                 /\ cell_cols' = grid[1]
                 /\ cell_rows' = grid[2]
                 /\ canvas_auto' = TRUE
                 /\ pc' = "set_canvas"
                 /\ UNCHANGED pickVars
       \/ /\ pc' = "pick_wait"
          /\ pickFor' = "canvas_tl"
          /\ click_coords' = None
          /\ UNCHANGED <<area, canvas_auto, canvas_top_left, canvas_bottom_right,
                         cell_cols, cell_rows>>
    /\ UNCHANGED <<running, paused, kbd, wwpCaller, clk, cd, idx, clear_first,
                   eraser_pos, color_map, optimized_pixels, clicks, phaseDone>>
    /\ UNCHANGED <<stopVars, seenVars, pureVars>>

\* canvas_detector.set_canvas, called at setup_canvas line 113 with the
\* detected rectangle and at line 123 with the picked one: the rectangle is
\* stored; when its capture succeeds the grid is computed from the capture,
\* and when it fails the grid is left as it was
SetCanvas ==
    /\ pc = "set_canvas"
    /\ LET rect == IF canvas_auto THEN <<canvas_top_left, canvas_bottom_right>> ELSE area
       IN  /\ canvas_top_left' = rect[1]
           /\ canvas_bottom_right' = rect[2]
           /\ \/ UNCHANGED <<cell_cols, cell_rows>>
              \/ \E grid \in ManualGrids(rect[2][1] - rect[1][1], rect[2][2] - rect[1][2]) :
                    /\ grid[1] <= MaxCols
                    /\ grid[2] <= MaxRows
                    /\ cell_cols' = grid[1]
                    /\ cell_rows' = grid[2]
    /\ area' = None
    /\ pc' = "setup_palette"
    /\ UNCHANGED <<running, paused, kbd, wwpCaller, clk, cd, idx, pickFor,
                   click_coords, clear_first, canvas_auto, eraser_pos, color_map,
                   optimized_pixels, clicks, phaseDone>>
    /\ UNCHANGED <<stopVars, seenVars, pureVars>>

\* a palette setup that does not store the eraser detect_palette found
SetupPaletteForgetsEraser ==
    /\ pc = "setup_palette"
    /\ \/ \E er \in EraserPoints :
             /\ eraser_pos' = eraser_pos
             /\ pc' = "setup_parameters"
             /\ UNCHANGED pickVars
       \/ /\ pc' = "pick_wait"
          /\ pickFor' = "palette_tl"
          /\ click_coords' = None
          /\ UNCHANGED <<area, eraser_pos>>
    /\ UNCHANGED <<running, paused, kbd, wwpCaller, clk, cd, idx, clear_first,
                   canvas_auto, canvas_top_left, canvas_bottom_right, cell_cols,
                   cell_rows, color_map, optimized_pixels, clicks, phaseDone>>
    /\ UNCHANGED <<stopVars, seenVars, pureVars>>

\* setup_palette lines 134-150: detect_palette finds the palette, and with it
\* the eraser (palette_analyzer.py: the last circle found), which is stored
\* when clearing was requested; or it finds nothing and get_area asks for the
\* first corner
SetupPalette ==
    /\ pc = "setup_palette"
    /\ \/ \E er \in EraserPoints :
             /\ eraser_pos' = IF clear_first THEN er ELSE eraser_pos
             /\ pc' = "setup_parameters"
             /\ UNCHANGED pickVars
       \/ /\ pc' = "pick_wait"
          /\ pickFor' = "palette_tl"
          /\ click_coords' = None
          /\ UNCHANGED <<area, eraser_pos>>
    /\ UNCHANGED <<running, paused, kbd, wwpCaller, clk, cd, idx, clear_first,
                   canvas_auto, canvas_top_left, canvas_bottom_right, cell_cols,
                   cell_rows, color_map, optimized_pixels, clicks, phaseDone>>
    /\ UNCHANGED <<stopVars, seenVars, pureVars>>

\* ---- input/mouse_controller.py: MouseController.get_click, get_area ----

\* get_area line 114: the corners are a rectangle
ValidArea(tl, br) == tl[1] < br[1] /\ tl[2] < br[2]

\* _on_click lines 36-53, run by the mouse listener while get_click waits in
\* listener.join(): a left press made while the state is running is stored and
\* ends the listener; any other event, and every event once the state is
\* stopped, returns True, which leaves the listener running and changes
\* nothing
PickClick ==
    /\ pc = "pick_wait"
    /\ running
    /\ \E pt \in IF pickFor = "eraser" THEN EraserPoints ELSE PickPoints :
          click_coords' = pt
    /\ pc' = "pick_check"
    /\ UNCHANGED <<running, paused, kbd, wwpCaller, clk, cd, idx, pickFor, area,
                   clicks, phaseDone>>
    /\ UNCHANGED <<dataVars, stopVars, seenVars, pureVars>>

\* the setup has failed: state.stop() (setup_canvas line 121, setup_palette
\* lines 147, 158, 166, AutoDrawer.setup line 91), and run() returns through
\* its finally block
SetupFailed ==
    /\ StopNow
    /\ pc' = "finally"
    /\ pickFor' = "none"
    /\ area' = None
    /\ UNCHANGED <<kbd, wwpCaller, clk, cd, idx, click_coords, clicks, phaseDone>>
    /\ UNCHANGED <<dataVars, pureVars>>

\* get_click lines 73-83 after listener.join() has returned, and what
\* get_area (lines 102-118) and setup_canvas / setup_palette do with the
\* point: is_running() is polled; a stopped state or corners that are no
\* rectangle fail the setup
PickCheck ==
    /\ pc = "pick_check"
    /\ PollRunning
    /\ IF ~running THEN SetupFailed
       ELSE IF pickFor \in {"canvas_tl", "palette_tl"}
       THEN /\ area' = <<click_coords>>
            /\ pickFor' = IF pickFor = "canvas_tl" THEN "canvas_br" ELSE "palette_br"
            /\ click_coords' = None
            /\ pc' = "pick_wait"
            /\ UNCHANGED <<running, paused, kbd, wwpCaller, clk, cd, idx, clicks,
                           phaseDone>>
            /\ UNCHANGED <<dataVars, stopVars, pureVars>>
       ELSE IF pickFor \in {"canvas_br", "palette_br"} /\ ~ValidArea(area[1], click_coords)
       THEN SetupFailed
       ELSE IF pickFor = "canvas_br"
       THEN /\ area' = <<area[1], click_coords>>
            /\ pickFor' = "none"
            /\ pc' = "set_canvas"
            /\ UNCHANGED <<running, paused, kbd, wwpCaller, clk, cd, idx,
                           click_coords, clicks, phaseDone>>
            /\ UNCHANGED <<dataVars, stopVars, pureVars>>
       ELSE IF pickFor = "palette_br"
       THEN /\ area' = None
            /\ pickFor' = IF clear_first THEN "eraser" ELSE "none"
            /\ click_coords' = IF clear_first THEN None ELSE click_coords
            /\ pc' = IF clear_first THEN "pick_wait" ELSE "setup_parameters"
            /\ UNCHANGED <<running, paused, kbd, wwpCaller, clk, cd, idx, clicks,
                           phaseDone>>
            /\ UNCHANGED <<dataVars, stopVars, pureVars>>
       ELSE /\ eraser_pos' = click_coords
            /\ pickFor' = "none"
            /\ pc' = "setup_parameters"
            /\ UNCHANGED <<running, paused, kbd, wwpCaller, clk, cd, idx,
                           click_coords, area, clicks, phaseDone>>
            /\ UNCHANGED <<clear_first, canvas_auto, canvas_top_left,
                           canvas_bottom_right, cell_cols, cell_rows, color_map,
                           optimized_pixels>>
            /\ UNCHANGED <<stopVars, pureVars>>

\* setup_parameters lines 179-220: the values are read from the console and
\* is_running() is polled (lines 184, 213); a stopped state fails the setup
SetupParameters ==
    /\ pc = "setup_parameters"
    /\ PollRunning
    /\ IF running
       THEN /\ pc' = "after_setup"
            /\ phaseDone' = phaseDone \cup {"setup"}
            /\ UNCHANGED <<running, paused, kbd, wwpCaller, clk, cd, idx, clicks>>
            /\ UNCHANGED <<dataVars, pickVars, stopVars, pureVars>>
       ELSE SetupFailed

\* setup lines 95-103: an exception raised inside the setup stops the state and
\* fails the setup
SetupFail ==
    /\ pc \in {"setup", "set_canvas", "setup_palette", "setup_parameters"}
    /\ SetupFailed
    /\ UNCHANGED seenVars

\* ---- core/auto_drawer.py: AutoDrawer.run ----

\* run() lines 148-150: a KeyboardInterrupt reaches the execution thread inside
\* the try block and unwinds the calls in progress: state.stop(), then the
\* finally block
Interrupt ==
    /\ pc \notin {"finally", "done"}
    /\ StopNow
    /\ Go([Ctl EXCEPT !.pc = "finally", !.wwpCaller = "none", !.clk = "none",
                      !.cd = 0, !.idx = 0])
    /\ pickFor' = "none"
    /\ click_coords' = None
    /\ area' = None
    /\ UNCHANGED <<kbd, clicks>>
    /\ UNCHANGED <<dataVars, seenVars, pureVars>>

\* run() lines 122-124
AfterSetup ==
    /\ pc = "after_setup"
    /\ PollRunning
    /\ pc' = IF running THEN "preview_start" ELSE "finally"
    /\ UNCHANGED <<wwpCaller, clk, cd, idx, phaseDone>>
    /\ ControlOnly

\* preview_image lines 84-93: the image is downsampled to cell_cols x
\* cell_rows and shown, or not; it cannot be when a target size is 0
PreviewStart ==
    /\ pc = "preview_start"
    /\ \E loaded \in BOOLEAN :
          pc' = IF loaded /\ cell_cols >= 1 /\ cell_rows >= 1 THEN "preview"
                ELSE "finally"
    /\ UNCHANGED <<wwpCaller, clk, cd, idx, phaseDone>>
    /\ UNCHANGED seenVars
    /\ ControlOnly

\* preview_image line 106: while state.is_running()
PreviewPoll ==
    /\ pc = "preview"
    /\ PollRunning
    /\ pc' = IF running THEN "preview_key" ELSE "finally"
    /\ UNCHANGED <<wwpCaller, clk, cd, idx, phaseDone>>
    /\ ControlOnly

\* a preview that escape confirms as well
PreviewKeyEscConfirms ==
    /\ pc = "preview_key"
    /\ \E key \in {32, 27, -1} :
          /\ Go(IF key = 32
                THEN [Ctl EXCEPT !.pc = "after_preview",
                                 !.phaseDone = phaseDone \cup {"preview"}]
                ELSE IF key = 27 THEN [Ctl EXCEPT !.pc = "after_preview"]
                ELSE IF paused THEN CallWait(Ctl, "preview")
                ELSE [Ctl EXCEPT !.pc = "preview"])
          /\ IF key = -1 THEN PollPaused ELSE UNCHANGED seenVars
    /\ ControlOnly

\* preview_image lines 107-119: cv2.waitKey gives space (32), escape (27) or
\* nothing; with no key, is_paused() is polled
PreviewKey ==
    /\ pc = "preview_key"
    /\ \E key \in {32, 27, -1} :
          /\ Go(IF key = 32
                THEN [Ctl EXCEPT !.pc = "after_preview",
                                 !.phaseDone = phaseDone \cup {"preview"}]
                ELSE IF key = 27 THEN [Ctl EXCEPT !.pc = "finally"]
                ELSE IF paused THEN CallWait(Ctl, "preview")
                ELSE [Ctl EXCEPT !.pc = "preview"])
          /\ IF key = -1 THEN PollPaused ELSE UNCHANGED seenVars
    /\ ControlOnly

\* run() lines 131-136: the poll after the preview, then execute() starts its
\* countdown
AfterPreview ==
    /\ pc = "after_preview"
    /\ PollRunning
    /\ Go(IF running THEN [Ctl EXCEPT !.pc = "cd_running", !.cd = CountdownStart]
          ELSE [Ctl EXCEPT !.pc = "finally"])
    /\ ControlOnly

\* ---- core/process_controller.py: ProcessController.execute ----

\* execute() lines 257-260: after the sleep, is_running() is polled
CountdownPollRunning ==
    /\ pc = "cd_running"
    /\ PollRunning
    /\ Go(IF running THEN [Ctl EXCEPT !.pc = "cd_paused"] ELSE ExecuteReturns(Ctl))
    /\ ControlOnly

\* execute() lines 261-265: is_paused() is polled
CountdownPollPaused ==
    /\ pc = "cd_paused"
    /\ PollPaused
    /\ Go(IF paused THEN CallWait(Ctl, "countdown") ELSE CountdownNext(Ctl))
    /\ ControlOnly

\* ---- core/state_manager.py: StateManager.wait_while_paused ----

\* a wait that polls is_paused() once and does not loop
WaitPollPausedOnce ==
    /\ pc = "wwp_paused"
    /\ PollPaused
    /\ pc' = "wwp_return"
    /\ UNCHANGED <<wwpCaller, clk, cd, idx, phaseDone>>
    /\ ControlOnly

\* line 63: while self.is_paused()
WaitPollPaused ==
    /\ pc = "wwp_paused"
    /\ PollPaused
    /\ pc' = IF paused THEN "wwp_running" ELSE "wwp_return"
    /\ UNCHANGED <<wwpCaller, clk, cd, idx, phaseDone>>
    /\ ControlOnly

\* lines 64-67: if not self.is_running(): return False; else sleep and loop
WaitPollRunning ==
    /\ pc = "wwp_running"
    /\ PollRunning
    /\ Go(IF running THEN [Ctl EXCEPT !.pc = "wwp_paused"] ELSE AfterWait(Ctl, FALSE))
    /\ ControlOnly

\* line 68: return self.is_running()
WaitReturn ==
    /\ pc = "wwp_return"
    /\ PollRunning
    /\ Go(AfterWait(Ctl, running))
    /\ ControlOnly

\* ---- input/mouse_controller.py: MouseController.click ----

\* a click that does not look at is_running()
ClickPollRunningSkipped ==
    /\ pc = "clk_running"
    /\ UNCHANGED seenVars
    /\ Go([Ctl EXCEPT !.pc = "clk_paused"])
    /\ ControlOnly

\* lines 132-134: if not self.state.is_running(): return False
ClickPollRunning ==
    /\ pc = "clk_running"
    /\ PollRunning
    /\ Go(IF running THEN [Ctl EXCEPT !.pc = "clk_paused"] ELSE AfterClick(Ctl, FALSE))
    /\ ControlOnly

\* a click that does not look at is_paused()
ClickPollPausedSkipped ==
    /\ pc = "clk_paused"
    /\ PollPaused
    /\ Go([Ctl EXCEPT !.pc = "clk_do"])
    /\ ControlOnly

\* lines 136-139: if self.state.is_paused(): wait_while_paused()
ClickPollPaused ==
    /\ pc = "clk_paused"
    /\ PollPaused
    /\ Go(IF paused THEN CallWait(Ctl, "click") ELSE [Ctl EXCEPT !.pc = "clk_do"])
    /\ ControlOnly

\* lines 141-148: pyautogui.click(x, y) returns, or raises and False is returned
ClickDo ==
    /\ pc = "clk_do"
    /\ \E ok \in BOOLEAN :
          /\ clicks' = Append(clicks, [pt |-> ClickPoint(clk, idx), kind |-> clk, ok |-> ok])
          /\ Go(AfterClick(Ctl, ok))
    /\ pauseClicked' = IF running /\ paused THEN pauseClicked + 1 ELSE pauseClicked
    /\ UNCHANGED <<running, paused, kbd>>
    /\ UNCHANGED <<dataVars, pickVars, stopLog, seenVars, pureVars>>

\* ---- core/process_controller.py: ProcessController.clear_canvas ----

\* lines 285-291: without an eraser or a canvas the clearing fails; else the
\* eraser is selected
ClearEntry ==
    /\ pc = "clear_entry"
    /\ NewIteration
    /\ Go(IF eraser_pos = None \/ canvas_top_left = None THEN ExecuteReturns(Ctl)
          ELSE CallClick(Ctl, "eraser"))
    /\ ControlOnly

\* lines 299-303 and 320-321: the next cell in row-major order, or the end of
\* the clearing, after which execute() calls draw_image
ClearIter ==
    /\ pc = "clear_iter"
    /\ NewIteration
    /\ Go(IF idx < cell_cols * cell_rows THEN CallWait(Ctl, "clear_iter")
          ELSE [Ctl EXCEPT !.pc = "draw_entry", !.idx = 0,
                           !.phaseDone = phaseDone \cup {"clear"}])
    /\ ControlOnly

\* ---- core/process_controller.py: ProcessController.draw_image ----

\* image_processor.downsample_image lines 50-62: the thumbnail of tw x th is
\* turned by 90 degrees when it is wider than high; the result is <<w, h>>
DownsampleDims(tw, th) == IF tw > th THEN <<th, tw>> ELSE <<tw, th>>

\* image_processor.get_input_pixels lines 161-167: the pixels in row-major
\* order, (j, i, color), the color of pixel k being coloring[k]
InputPixels(w, h, coloring) ==
    [k \in 1..(w * h) |-> <<(k - 1) % w, (k - 1) \div w, coloring[k]>>]

\* set(p[2] for p in pixels)
UniqueColors(pixels) == {pixels[k][3] : k \in 1..Len(pixels)}

\* [p for p in pixels if p[2] in color_map]
RECURSIVE Drawable(_, _)
Drawable(pixels, cmap) ==
    IF pixels = <<>> THEN <<>>
    ELSE IF Head(pixels)[3] \in DOMAIN cmap
         THEN <<Head(pixels)>> \o Drawable(Tail(pixels), cmap)
         ELSE Drawable(Tail(pixels), cmap)

\* lines 330-375: everything draw_image does before its loop. The image, the
\* palette capture and the extracted palette are the environment's choice.
DrawEntry ==
    /\ pc = "draw_entry"
    /\ \E got \in {"no_pixels", "no_capture", "ok"},
          tw \in 1..cell_cols, th \in 1..cell_rows,
          palette_data \in RunPalettes :
          /\ tw * th <= MaxPixels
          /\ \E coloring \in [1..(tw * th) -> RunImageColors] :
                LET dims == DownsampleDims(tw, th)
                    pixels == InputPixels(dims[1], dims[2], coloring)
                    cmap == map_colors(UniqueColors(pixels), palette_data)
                IN  IF canvas_top_left = None \/ canvas_bottom_right = None
                       \/ got = "no_pixels"
                    THEN /\ Go(ExecuteReturns(Ctl))
                         /\ UNCHANGED <<running, paused, color_map, optimized_pixels>>
                         /\ UNCHANGED stopVars
                    ELSE IF got = "no_capture"
                    THEN /\ StopNow
                         /\ Go(ExecuteReturns(Ctl))
                         /\ UNCHANGED <<color_map, optimized_pixels>>
                    ELSE IF palette_data = <<>> \/ cmap = None
                    THEN /\ Go(ExecuteReturns(Ctl))
                         /\ UNCHANGED <<running, paused, color_map, optimized_pixels>>
                         /\ UNCHANGED stopVars
                    ELSE /\ color_map' = cmap
                         /\ optimized_pixels' = optimize_drawing_order(Drawable(pixels, cmap))
                         /\ Go([Ctl EXCEPT !.pc = "draw_iter", !.idx = 0])
                         /\ UNCHANGED <<running, paused>>
                         /\ UNCHANGED stopVars
    /\ UNCHANGED <<kbd, clicks, clear_first, canvas_auto, canvas_top_left,
                   canvas_bottom_right, cell_cols, cell_rows, eraser_pos>>
    /\ UNCHANGED <<pickVars, seenVars, pureVars>>

\* lines 378-381 and 404: the next pixel, or the end of the drawing
DrawIter ==
    /\ pc = "draw_iter"
    /\ NewIteration
    /\ Go(IF idx < Len(optimized_pixels) THEN CallWait(Ctl, "draw_iter")
          ELSE [ExecuteReturns(Ctl) EXCEPT !.phaseDone = phaseDone \cup {"draw"}])
    /\ ControlOnly

\* ---- core/auto_drawer.py: the end of run() ----

\* run() lines 139-146: the final poll that chooses the closing message
Final ==
    /\ pc = "final"
    /\ PollRunning
    /\ Go([Ctl EXCEPT !.pc = "finally",
                      !.phaseDone = IF running THEN phaseDone \cup {"success"}
                                    ELSE phaseDone])
    /\ ControlOnly

\* a finally block that leaves the listener alone
FinallyKeepsListener ==
    /\ pc = "finally"
    /\ pc' = "done"
    /\ UNCHANGED <<kbd, wwpCaller, clk, cd, idx, phaseDone>>
    /\ UNCHANGED <<running, paused, clicks>>
    /\ UNCHANGED <<dataVars, pickVars, stopVars, seenVars, pureVars>>

\* run() lines 154-161: finally: self.keyboard.stop()
Finally ==
    /\ pc = "finally"
    /\ kbd' = FALSE
    /\ pc' = "done"
    /\ UNCHANGED <<wwpCaller, clk, cd, idx, phaseDone>>
    /\ UNCHANGED <<running, paused, clicks>>
    /\ UNCHANGED <<dataVars, pickVars, stopVars, seenVars, pureVars>>

(***************************************************************************)
(* The run: state after AutoDrawer.__init__, and its steps                 *)
(***************************************************************************)
PureIdle ==
    /\ optIn = <<>>
    /\ optOut = <<>>
    /\ mapColors = {}
    /\ mapPalette = <<>>
    /\ mapOut = None
    /\ candidates = <<>>
    /\ assume_portrait = TRUE
    /\ gridSized = None
    /\ gridOriented = None
    /\ circles = <<>>
    /\ paletteOut = None
    /\ cfgIn = None
    /\ cfgNew = None
    /\ cfgOut = None
    /\ clearPoints = <<>>
    /\ fn = "none"

RunIdle ==
    /\ running = TRUE
    /\ paused = FALSE
    /\ kbd = TRUE
    /\ pc = "setup"
    /\ wwpCaller = "none"
    /\ clk = "none"
    /\ cd = 0
    /\ idx = 0
    /\ pickFor = "none"
    /\ click_coords = None
    /\ area = None
    /\ canvas_auto = FALSE
    /\ canvas_top_left = None
    /\ canvas_bottom_right = None
    /\ cell_cols = 0
    /\ cell_rows = 0
    /\ eraser_pos = None
    /\ color_map = None
    /\ optimized_pixels = <<>>
    /\ clicks = <<>>
    /\ phaseDone = {}
    /\ stopPhase = "none"
    /\ stopInWait = FALSE
    /\ stopClicks = 0
    /\ seenRunning = "none"
    /\ seenPaused = "none"
    /\ pauseClicked = 0

Init ==
    /\ RunIdle
    /\ clear_first \in BOOLEAN
    /\ PureIdle

\* the steps of the execution thread
ThreadNext ==
    \/ DetectCanvas
    \/ SetCanvas
    \/ SetupPalette
    \/ PickCheck
    \/ SetupParameters
    \/ AfterSetup
    \/ PreviewStart
    \/ PreviewPoll
    \/ PreviewKey
    \/ AfterPreview
    \/ CountdownPollRunning
    \/ CountdownPollPaused
    \/ WaitPollPaused
    \/ WaitPollRunning
    \/ WaitReturn
    \/ ClickPollRunning
    \/ ClickPollPaused
    \/ ClickDo
    \/ ClearEntry
    \/ ClearIter
    \/ DrawEntry
    \/ DrawIter
    \/ Final
    \/ Finally

\* the steps of the surroundings: keys, mouse presses, exceptions
Next ==
    \/ ThreadNext
    \/ KeyEsc
    \/ KeySpace
    \/ PickClick
    \/ SetupFail
    \/ Interrupt

Spec == Init /\ [][Next]_vars

\* the execution thread is scheduled as long as it has a step to take
FairSpec == Spec /\ WF_vars(ThreadNext)

(***************************************************************************)
(* optimize_drawing_order applied to every pixel list up to MaxCells       *)
(***************************************************************************)
PixelUniverse == {<<x, y, c>> : x \in 0..1, y \in 0..1, c \in ImageColors}

InitOptimize ==
    /\ RunIdle
    /\ clear_first = FALSE
    /\ optIn \in SeqsUpTo(PixelUniverse, MaxCells)
    /\ optOut = <<>>
    /\ mapColors = {}
    /\ mapPalette = <<>>
    /\ mapOut = None
    /\ candidates = <<>>
    /\ assume_portrait = TRUE
    /\ gridSized = None
    /\ gridOriented = None
    /\ circles = <<>>
    /\ paletteOut = None
    /\ cfgIn = None
    /\ cfgNew = None
    /\ cfgOut = None
    /\ clearPoints = <<>>
    /\ fn = "none"

Optimize ==
    /\ fn = "none"
    /\ optOut' = optimize_drawing_order(optIn)
    /\ fn' = "optimize"
    /\ UNCHANGED <<optIn, mapColors, mapPalette, mapOut, candidates,
                   assume_portrait, gridSized, gridOriented>>
    /\ UNCHANGED <<circles, paletteOut, cfgIn, cfgNew, cfgOut, clearPoints>>
    /\ UNCHANGED runVars

SpecOptimize == InitOptimize /\ [][Optimize]_vars

(***************************************************************************)
(* map_colors applied to every color set and every palette up to MaxPalette*)
(***************************************************************************)
InitMatch ==
    /\ RunIdle
    /\ clear_first = FALSE
    /\ optIn = <<>>
    /\ optOut = <<>>
    /\ mapColors \in SUBSET ImageColors
    /\ mapPalette \in SeqsUpTo(PaletteColors \X SwatchPoints, MaxPalette)
    /\ mapOut = None
    /\ candidates = <<>>
    /\ assume_portrait = TRUE
    /\ gridSized = None
    /\ gridOriented = None
    /\ circles = <<>>
    /\ paletteOut = None
    /\ cfgIn = None
    /\ cfgNew = None
    /\ cfgOut = None
    /\ clearPoints = <<>>
    /\ fn = "none"

Match ==
    /\ fn = "none"
    /\ mapOut' = map_colors(mapColors, mapPalette)
    /\ fn' = "map_colors"
    /\ UNCHANGED <<optIn, optOut, mapColors, mapPalette, candidates,
                   assume_portrait, gridSized, gridOriented>>
    /\ UNCHANGED <<circles, paletteOut, cfgIn, cfgNew, cfgOut, clearPoints>>
    /\ UNCHANGED runVars

SpecMatch == InitMatch /\ [][Match]_vars

(***************************************************************************)
(* detect_canvas's grid for every list of cell candidates up to            *)
(* MaxCandidates and for ten 20x20 cells laid over ((0,300),(200,500))     *)
(***************************************************************************)
CandUniverse ==
    { <<0, 0, 10, 10>>, <<10, 10, 20, 20>>, <<0, 0, 11, 10>>, <<9, 10, 20, 20>>,
      <<0, 0, 10, 11>>, <<10, 9, 20, 20>>, <<30, 0, 40, 10>>,
      <<0, 300, 20, 320>>, <<180, 480, 200, 500>> }

TenCells == [k \in 1..10 |-> <<20 * (k - 1), 300 + 20 * (k - 1), 20 * k, 300 + 20 * k>>]

InitGrid ==
    /\ RunIdle
    /\ clear_first = FALSE
    /\ optIn = <<>>
    /\ optOut = <<>>
    /\ mapColors = {}
    /\ mapPalette = <<>>
    /\ mapOut = None
    /\ candidates \in (SeqsUpTo(CandUniverse, MaxCandidates) \ {<<>>}) \cup {TenCells}
    /\ assume_portrait \in BOOLEAN
    /\ gridSized = None
    /\ gridOriented = None
    /\ circles = <<>>
    /\ paletteOut = None
    /\ cfgIn = None
    /\ cfgNew = None
    /\ cfgOut = None
    /\ clearPoints = <<>>
    /\ fn = "none"

\* detect_canvas lines 108-134 applied to the candidates
DetectGrid ==
    /\ fn = "none"
    /\ gridSized' = GridSizing(candidates)
    /\ gridOriented' = OrientationCorrection(assume_portrait, GridSizing(candidates))
    /\ fn' = "detect_canvas"
    /\ UNCHANGED <<optIn, optOut, mapColors, mapPalette, mapOut, candidates,
                   assume_portrait>>
    /\ UNCHANGED <<circles, paletteOut, cfgIn, cfgNew, cfgOut, clearPoints>>
    /\ UNCHANGED runVars

SpecGrid == InitGrid /\ [][DetectGrid]_vars

(***************************************************************************)
(* capture/palette_analyzer.py: detect_palette applied to the circles that *)
(* HoughCircles returned. A circle is <<x, y, radius>>; line 71 makes each *)
(* of the three an np.uint16, so the sums and differences of lines 95-96   *)
(* are taken modulo 2^16.                                                  *)
(***************************************************************************)
MaxCircles == 3     \* longest list of circles given to detect_palette

U16Modulus == 65536
MinDist == 30
MaxKept == 10

U16(n) == ((n % U16Modulus) + U16Modulus) % U16Modulus

\* sorted(circles_uint, key=lambda c: c[0]): stable, ascending in x
RECURSIVE InsertByX(_, _)
InsertByX(c, s) ==
    IF s = <<>> THEN <<c>>
    ELSE IF c[1] < Head(s)[1] THEN <<c>> \o s
    ELSE <<Head(s)>> \o InsertByX(c, Tail(s))

RECURSIVE SortedByX(_)
SortedByX(cs) ==
    IF cs = <<>> THEN <<>>
    ELSE InsertByX(cs[Len(cs)], SortedByX(SubSeq(cs, 1, Len(cs) - 1)))

\* final_circles_data: the MaxKept leftmost circles, lines 75-85
Kept(cs) == SubSeq(SortedByX(cs), 1, Min(Len(cs), MaxKept))

\* all_x and all_y, lines 95-96
AllX(fc) == {U16(fc[i][1] - fc[i][3]) : i \in DOMAIN fc}
            \cup {U16(fc[i][1] + fc[i][3]) : i \in DOMAIN fc}
AllY(fc) == {U16(fc[i][2] - fc[i][3]) : i \in DOMAIN fc}
            \cup {U16(fc[i][2] + fc[i][3]) : i \in DOMAIN fc}

\* what detect_palette returns; HoughCircles finding nothing is cs = <<>>
detect_palette(cs) ==
    IF cs = <<>>
    THEN [top_left |-> None, bottom_right |-> None,
          circles |-> <<>>, eraser |-> None]
    ELSE LET fc == Kept(cs) IN
         [top_left |-> <<Least(AllX(fc)), Least(AllY(fc))>>,
          bottom_right |-> <<Greatest(AllX(fc)), Greatest(AllY(fc))>>,
          circles |-> fc,
          eraser |-> <<fc[Len(fc)][1], fc[Len(fc)][2]>>]

\* circles of radius 23..25 in the search region (the top left of the
\* screen), some with the centre nearer to the screen's edge than the radius
CircleUniverse ==
    { <<20, 40, 23>>, <<60, 40, 24>>, <<100, 40, 25>>, <<60, 20, 23>>,
      <<140, 40, 23>>, <<100, 80, 24>>, <<180, 40, 24>> }

\* HoughCircles keeps the centres it returns at least minDist apart
FarApart(cs) ==
    \A i, j \in DOMAIN cs :
        i # j => (cs[i][1] - cs[j][1]) * (cs[i][1] - cs[j][1])
                 + (cs[i][2] - cs[j][2]) * (cs[i][2] - cs[j][2])
                 >= MinDist * MinDist

InitPalette ==
    /\ RunIdle
    /\ clear_first = FALSE
    /\ optIn = <<>>
    /\ optOut = <<>>
    /\ mapColors = {}
    /\ mapPalette = <<>>
    /\ mapOut = None
    /\ candidates = <<>>
    /\ assume_portrait = TRUE
    /\ gridSized = None
    /\ gridOriented = None
    /\ circles \in {cs \in SeqsUpTo(CircleUniverse, MaxCircles) : FarApart(cs)}
    /\ paletteOut = None
    /\ cfgIn = None
    /\ cfgNew = None
    /\ cfgOut = None
    /\ clearPoints = <<>>
    /\ fn = "none"

DetectPalette ==
    /\ fn = "none"
    /\ paletteOut' = detect_palette(circles)
    /\ fn' = "detect_palette"
    /\ UNCHANGED <<optIn, optOut, mapColors, mapPalette, mapOut, candidates,
                   assume_portrait, gridSized, gridOriented>>
    /\ UNCHANGED <<circles, cfgIn, cfgNew, cfgOut, clearPoints>>
    /\ UNCHANGED runVars

SpecPalette == InitPalette /\ [][DetectPalette]_vars

(***************************************************************************)
(* utils/config_loader.py: _validate_config and update.                    *)
(* A value is [t |-> its Python type, v |-> its number]; the number of a   *)
(* float is in hundredths (0.08 is 8), that of a bool is 1 or 0, that of   *)
(* a string or of None is 0. The configuration is a function from the      *)
(* top-level keys to values; under "canvas_detection" it holds a function  *)
(* from CanvasKeys to values, or a value when the file put no mapping there*)
(***************************************************************************)
IntV(n) == [t |-> "int", v |-> n]
FloatV(h) == [t |-> "float", v |-> h]
BoolV(b) == [t |-> "bool", v |-> IF b THEN 1 ELSE 0]
StrV == [t |-> "str", v |-> 0]
NoneV == [t |-> "none", v |-> 0]

\* isinstance(x, int), isinstance(x, float), isinstance(x, bool),
\* isinstance(x, (int, float)); a Python bool is an int
IsInt(x) == x.t \in {"int", "bool"}
IsFloat(x) == x.t = "float"
IsBool(x) == x.t = "bool"
IsNumber(x) == x.t \in {"int", "bool", "float"}

\* the number of a value in hundredths, to compare an int with a float
Hundredths(x) == IF x.t = "float" THEN x.v ELSE 100 * x.v

DelayKeys == {"click_delay", "color_change_delay", "clear_click_delay",
              "failsafe_delay"}
SizeKeys == {"target_width", "num_colors"}
CanvasKeys == {"search_offset_y_ratio", "adaptive_thresh_block_size",
               "adaptive_thresh_c", "morph_kernel_size", "morph_iterations",
               "cell_min_aspect_ratio", "cell_max_aspect_ratio",
               "cell_min_width", "cell_max_width", "cell_min_height",
               "cell_max_height", "assume_portrait", "fallback_cell_size"}

IsDict(x) == DOMAIN x = CanvasKeys

\* default_config of _load_config, lines 33-55
DefaultCanvas ==
    [k \in CanvasKeys |->
        CASE k = "search_offset_y_ratio" -> FloatV(30)
          [] k = "adaptive_thresh_block_size" -> IntV(11)
          [] k = "adaptive_thresh_c" -> IntV(2)
          [] k = "morph_kernel_size" -> IntV(3)
          [] k = "morph_iterations" -> IntV(1)
          [] k = "cell_min_aspect_ratio" -> FloatV(80)
          [] k = "cell_max_aspect_ratio" -> FloatV(120)
          [] k = "cell_min_width" -> IntV(5)
          [] k = "cell_max_width" -> IntV(100)
          [] k = "cell_min_height" -> IntV(5)
          [] k = "cell_max_height" -> IntV(100)
          [] k = "assume_portrait" -> BoolV(TRUE)
          [] OTHER -> IntV(20)]

DefaultConfig ==
    [k \in SizeKeys \cup DelayKeys \cup {"canvas_detection"} |->
        CASE k = "target_width" -> IntV(100)
          [] k = "num_colors" -> IntV(10)
          [] k = "click_delay" -> FloatV(50)
          [] k = "color_change_delay" -> FloatV(8)
          [] k = "clear_click_delay" -> FloatV(50)
          [] k = "failsafe_delay" -> FloatV(1)
          [] OTHER -> DefaultCanvas]

\* lines 86-91: what _validate_config leaves under target_width, num_colors
ValidatedSize(k, x) ==
    IF IsInt(x) /\ x.v > 0 THEN x
    ELSE IF k = "target_width" THEN IntV(100) ELSE IntV(10)

\* lines 92-95: what _validate_config leaves under a delay key
ValidatedDelay(x) ==
    IF IsNumber(x) /\ Hundredths(x) > 0 THEN x ELSE FloatV(50)

\* the validations table, lines 99-113: type, condition and default of a
\* key of canvas_detection; canvas is the mapping as validated so far
CanvasAccepts(canvas, k, x) ==
    CASE k = "search_offset_y_ratio" -> IsFloat(x) /\ 0 <= x.v /\ x.v <= 100
      [] k = "adaptive_thresh_block_size" -> IsInt(x) /\ x.v > 3 /\ x.v % 2 = 1
      [] k = "adaptive_thresh_c" -> IsInt(x) /\ 0 <= x.v /\ x.v <= 10
      [] k = "morph_kernel_size" -> IsInt(x) /\ x.v > 0 /\ x.v % 2 = 1
      [] k = "morph_iterations" -> IsInt(x) /\ x.v >= 1
      [] k = "cell_min_aspect_ratio" -> IsFloat(x) /\ 50 <= x.v /\ x.v <= 100
      [] k = "cell_max_aspect_ratio" -> IsFloat(x) /\ 100 <= x.v /\ x.v <= 200
      [] k = "cell_min_width" -> IsInt(x) /\ x.v > 0
      [] k = "cell_max_width" -> IsInt(x) /\ x.v > canvas["cell_min_width"].v
      [] k = "cell_min_height" -> IsInt(x) /\ x.v > 0
      [] k = "cell_max_height" -> IsInt(x) /\ x.v > canvas["cell_min_height"].v
      [] k = "assume_portrait" -> IsBool(x)
      [] OTHER -> IsInt(x) /\ x.v > 0

\* lines 114-118; the minimum of a pair is validated before its maximum
ValidatedCanvas(canvas) ==
    LET mins == [k \in CanvasKeys |->
                    IF k \in {"cell_min_width", "cell_min_height"}
                       /\ ~CanvasAccepts(canvas, k, canvas[k])
                    THEN DefaultCanvas[k] ELSE canvas[k]]
    IN  [k \in CanvasKeys |->
            IF CanvasAccepts(mins, k, mins[k]) THEN mins[k]
            ELSE DefaultCanvas[k]]

\* _validate_config: the configuration it leaves, and whether it raised
\* (canvas.get of line 108 or 115 on a value that is no mapping)
validate_config(cfg) ==
    LET top == [k \in DOMAIN cfg |->
                   IF k \in SizeKeys THEN ValidatedSize(k, cfg[k])
                   ELSE IF k \in DelayKeys THEN ValidatedDelay(cfg[k])
                   ELSE cfg[k]]
    IN  IF IsDict(cfg["canvas_detection"])
        THEN [raised |-> FALSE,
              config |-> [top EXCEPT !["canvas_detection"] =
                              ValidatedCanvas(cfg["canvas_detection"])]]
        ELSE [raised |-> TRUE, config |-> top]

\* _update_nested_dict(self.config, new_config) for the flat new_config of
\* setup_parameters
update_nested_dict(cfg, new) ==
    [k \in DOMAIN cfg |-> IF k \in DOMAIN new THEN new[k] ELSE cfg[k]]

\* what a configuration file can put under a delay, under num_colors and
\* under canvas_detection
DelayInputs == {FloatV(25), FloatV(0), StrV}
SizeInputs == {IntV(10), IntV(0), FloatV(250)}
CanvasInputs ==
    { DefaultCanvas,
      [DefaultCanvas EXCEPT !["cell_min_width"] = IntV(0),
                            !["cell_max_width"] = IntV(3)],
      [DefaultCanvas EXCEPT !["search_offset_y_ratio"] = IntV(1),
                            !["assume_portrait"] = StrV],
      IntV(5), NoneV }

\* what get_float(non_negative=True) can return in setup_parameters
SetupKeys == {"click_delay", "color_change_delay", "clear_click_delay"}
SetupInputs == {FloatV(0), FloatV(30)}

InitConfig ==
    /\ RunIdle
    /\ clear_first = FALSE
    /\ optIn = <<>>
    /\ optOut = <<>>
    /\ mapColors = {}
    /\ mapPalette = <<>>
    /\ mapOut = None
    /\ candidates = <<>>
    /\ assume_portrait = TRUE
    /\ gridSized = None
    /\ gridOriented = None
    /\ circles = <<>>
    /\ paletteOut = None
    /\ \E d1, d2, d3, d4 \in DelayInputs, n \in SizeInputs, c \in CanvasInputs :
          cfgIn = [DefaultConfig EXCEPT !["click_delay"] = d1,
                                        !["color_change_delay"] = d2,
                                        !["clear_click_delay"] = d3,
                                        !["failsafe_delay"] = d4,
                                        !["num_colors"] = n,
                                        !["canvas_detection"] = c]
    /\ cfgNew = None
    /\ cfgOut = None
    /\ clearPoints = <<>>
    /\ fn = "none"

\* ConfigLoader.__init__: _load_config, then _validate_config
Validate ==
    /\ fn = "none"
    /\ cfgOut' = validate_config(cfgIn)
    /\ fn' = "validate"
    /\ UNCHANGED <<optIn, optOut, mapColors, mapPalette, mapOut, candidates,
                   assume_portrait, gridSized, gridOriented>>
    /\ UNCHANGED <<circles, paletteOut, cfgIn, cfgNew, clearPoints>>
    /\ UNCHANGED runVars

\* setup_parameters: config.update with the three delays it asked for
Update ==
    /\ fn = "validate"
    /\ ~cfgOut.raised
    /\ \E new \in [SetupKeys -> SetupInputs] :
          /\ cfgNew' = new
          /\ cfgOut' = validate_config(update_nested_dict(cfgOut.config, new))
    /\ fn' = "update"
    /\ UNCHANGED <<optIn, optOut, mapColors, mapPalette, mapOut, candidates,
                   assume_portrait, gridSized, gridOriented>>
    /\ UNCHANGED <<circles, paletteOut, cfgIn, clearPoints>>
    /\ UNCHANGED runVars

SpecConfig == InitConfig /\ [][Validate \/ Update]_vars

(***************************************************************************)
(* The cell clicks of clear_canvas for the canvas Rect and the grid that   *)
(* setup_canvas leaves: detect_canvas's, kept when set_canvas cannot       *)
(* capture the Rect, or else the grid set_canvas computes                  *)
(***************************************************************************)
MaxPlan == 8        \* largest number of grid cells whose clicks are planned

\* seven 6x6 cells in one row: ((0,300),(42,306))
SevenInRow == [k \in 1..7 |-> <<6 * (k - 1), 300, 6 * k, 306>>]

\* clear_canvas lines 299-313: the click points in the order of its loops
ClearPlan(box, grid) ==
    [i \in 1..(grid[1] * grid[2]) |->
        << ScreenCoord(box[1][1], box[2][1], grid[1], (i - 1) % grid[1]),
           ScreenCoord(box[1][2], box[2][2], grid[2], (i - 1) \div grid[1]) >>]

InitClear ==
    /\ RunIdle
    /\ clear_first = TRUE
    /\ optIn = <<>>
    /\ optOut = <<>>
    /\ mapColors = {}
    /\ mapPalette = <<>>
    /\ mapOut = None
    /\ candidates \in (SeqsUpTo(CandUniverse, MaxCandidates) \ {<<>>})
                      \cup {SevenInRow}
    /\ assume_portrait \in BOOLEAN
    /\ gridSized = None
    /\ gridOriented = None
    /\ circles = <<>>
    /\ paletteOut = None
    /\ cfgIn = None
    /\ cfgNew = None
    /\ cfgOut = None
    /\ clearPoints = <<>>
    /\ fn = "none"

\* setup_canvas lines 110-113 (detect_canvas, then set_canvas on the Rect it
\* found), then the plan of clear_canvas
PlanClearing ==
    /\ fn = "none"
    /\ LET box == BoundingBox(candidates)
           detected == OrientationCorrection(assume_portrait, GridSizing(candidates))
       IN  \E grid \in {detected} \cup ManualGrids(box[2][1] - box[1][1],
                                                  box[2][2] - box[1][2]) :
              /\ grid[1] * grid[2] <= MaxPlan
              /\ gridOriented' = grid
              /\ clearPoints' = ClearPlan(box, grid)
    /\ fn' = "clear_canvas"
    /\ UNCHANGED <<optIn, optOut, mapColors, mapPalette, mapOut, candidates,
                   assume_portrait, gridSized>>
    /\ UNCHANGED <<circles, paletteOut, cfgIn, cfgNew, cfgOut>>
    /\ UNCHANGED runVars

SpecClear == InitClear /\ [][PlanClearing]_vars

(***************************************************************************)
(* Properties                                                              *)
(***************************************************************************)
IsDrawingClick(e) == e.kind \in DrawingKinds

\* the clicks made by draw_image, in the order made
DrawClicks == SelectSeq(clicks, IsDrawingClick)

Points(s) == [i \in 1..Len(s) |-> s[i].pt]

\* p is the pixel holding the centre of cell k of n cells laid over
\* origin..limit: origin + (2k+1) * extent / (2n), rounded down
IsCentre(p, origin, limit, n, k) ==
    /\ 2 * n * (p - origin) <= (2 * k + 1) * (limit - origin)
    /\ (2 * k + 1) * (limit - origin) < 2 * n * (p - origin + 1)

IsCellCentre(pt, x, y) ==
    /\ IsCentre(pt[1], canvas_top_left[1], canvas_bottom_right[1], cell_cols, x)
    /\ IsCentre(pt[2], canvas_top_left[2], canvas_bottom_right[2], cell_rows, y)

\* clear_canvas has returned True and nothing has been clicked since
ClearingJustCompleted == pc = "draw_entry" /\ "clear" \in phaseDone

\* C1: once the running flag is false it stays false, whatever stop() and
\* toggle_pause() calls the listener thread and the execution thread make.
C1_StoppedIsTerminal == [][~running => ~running']_vars

\* C1 witness: stop() has taken effect, a toggle_pause() came after it, and the
\* execution thread is about to poll is_running().
C1_Witness == ~running /\ paused /\ pc = "final"

\* C2 (as claimed): is_paused() is never true while is_running() is false.
C2_NeverPausedWhileStopped == ~(paused /\ ~running)

\* C3 (as claimed): a completed Clearing has issued exactly cols*rows pointer
\* clicks.
C3_ClearingIssuesColsTimesRowsClicks ==
    ClearingJustCompleted => Len(clicks) = cell_cols * cell_rows

\* C3 (amended): a completed Clearing has issued one click on the eraser swatch
\* and then exactly cols*rows clicks, all successful, the k-th of them at the
\* centre of cell (k mod cols, k div cols), that is in row-major order; for the
\* 2x2 grid over ((0,0),(20,20)) these are (5,5),(15,5),(5,15),(15,15).
C3_ClearingClicksEveryCellOnce ==
    ClearingJustCompleted =>
        /\ Len(clicks) = 1 + cell_cols * cell_rows
        /\ clicks[1].pt = eraser_pos
        /\ \A i \in 1..Len(clicks) : clicks[i].ok
        /\ \A k \in 0..(cell_cols * cell_rows - 1) :
              IsCellCentre(clicks[k + 2].pt, k % cell_cols, k \div cell_cols)
        /\ (cell_cols = 2 /\ cell_rows = 2 /\ canvas_top_left = <<0, 0>>
            /\ canvas_bottom_right = <<20, 20>>)
           => SubSeq(Points(clicks), 2, 5)
                = << <<5, 5>>, <<15, 5>>, <<5, 15>>, <<15, 15>> >>

\* C3 witness: the 2x2 clearing of ((0,0),(20,20)) has completed.
C3_Witness ==
    /\ ClearingJustCompleted
    /\ cell_cols = 2 /\ cell_rows = 2
    /\ canvas_top_left = <<0, 0>> /\ canvas_bottom_right = <<20, 20>>
    /\ Len(clicks) = 5

\* click 2k-1 of the plan selects the swatch of optimized pixel k, click 2k
\* hits its cell
PlannedDrawClick(i) ==
    LET op == optimized_pixels[(i + 1) \div 2]
    IN  IF i % 2 = 1 THEN [pt |-> color_map[op[3]], kind |-> "swatch"]
        ELSE [pt |-> CellPoint(op[1], op[2]), kind |-> "draw_cell"]

\* C4: the clicks dispatched by Drawing are always a prefix of select(op1),
\* cell(op1), select(op2), cell(op2), ... over the optimized pixels: none is
\* skipped, reordered or dispatched twice.
C4_DrawClicksArePlanPrefix ==
    /\ Len(DrawClicks) <= 2 * Len(optimized_pixels)
    /\ \A i \in 1..Len(DrawClicks) :
          /\ DrawClicks[i].pt = PlannedDrawClick(i).pt
          /\ DrawClicks[i].kind = PlannedDrawClick(i).kind

\* C4 witness: a drawing of at least two pixels has run to completion.
C4_Witness ==
    /\ "draw" \in phaseDone
    /\ Len(optimized_pixels) >= 2
    /\ Len(DrawClicks) = 2 * Len(optimized_pixels)

\* C5 (as claimed): in a complete Drawing the number of swatch-select clicks
\* equals the number of distinct colors of the optimized pixels.
C5_SelectsEqualDistinctColors ==
    "draw" \in phaseDone =>
        Cardinality({i \in 1..Len(DrawClicks) : DrawClicks[i].kind = "swatch"})
          = Cardinality(UniqueColors(optimized_pixels))

Count(s, e) == Cardinality({i \in 1..Len(s) : s[i] = e})

\* p does not sort after q under the key (color, row, col)
KeyNotAfter(p, q) ==
    \/ TupleLess(p[3], q[3])
    \/ p[3] = q[3] /\ p[2] < q[2]
    \/ p[3] = q[3] /\ p[2] = q[2] /\ p[1] <= q[1]

\* C6: the result of optimize has the length and the multiset of cells of its
\* argument and is non-decreasing under the key (color, row, col).
C6_OptimizeIsSortedPermutation ==
    fn = "optimize" =>
        /\ Len(optOut) = Len(optIn)
        /\ \A e \in PixelUniverse : Count(optOut, e) = Count(optIn, e)
        /\ \A i \in 1..(Len(optOut) - 1) : KeyNotAfter(optOut[i], optOut[i + 1])

\* C6 witness: optimize has reordered a list that holds a cell twice.
C6_Witness ==
    /\ fn = "optimize"
    /\ optOut # optIn
    /\ \E i, j \in 1..Len(optIn) : i < j /\ optIn[i] = optIn[j]

Transitions(s) == Cardinality({i \in 1..(Len(s) - 1) : s[i][3] # s[i + 1][3]})

\* the number of maximal runs of color c in s
Runs(s, c) ==
    Cardinality({i \in 1..Len(s) : s[i][3] = c /\ (i = 1 \/ s[i - 1][3] # c)})

\* C7 (as claimed): the number of color transitions of the output equals the
\* number of distinct colors minus the number of colors in only one run.
C7_TransitionsAsStated ==
    fn = "optimize" =>
        Transitions(optOut) =
            Cardinality(UniqueColors(optOut))
            - Cardinality({c \in UniqueColors(optOut) : Runs(optOut, c) = 1})

\* C7 (amended): in the output every color present forms exactly one run, and
\* the number of color transitions of a non-empty output equals the number of
\* distinct colors minus one (none in an empty output).
C7_TransitionsAreDistinctMinusOne ==
    fn = "optimize" =>
        /\ \A c \in UniqueColors(optOut) : Runs(optOut, c) = 1
        /\ Transitions(optOut) =
              IF optOut = <<>> THEN 0 ELSE Cardinality(UniqueColors(optOut)) - 1

\* C7 witness: an output of three colors, whose input had the colors mixed.
C7_Witness ==
    /\ fn = "optimize"
    /\ Cardinality(UniqueColors(optOut)) = 3
    /\ optIn # optOut

\* C8: a color of image_colors is a key of the result exactly when the palette
\* is not empty; no other key exists; an empty color set or palette gives an
\* empty mapping.
C8_MapIsTotal ==
    fn = "map_colors" =>
        /\ \A c \in mapColors : (c \in DOMAIN mapOut) <=> (mapPalette # <<>>)
        /\ DOMAIN mapOut \subseteq mapColors
        /\ (mapColors = {} \/ mapPalette = <<>>) => DOMAIN mapOut = {}

\* C8 witness: three colors mapped against a palette of one swatch.
C8_Witness ==
    /\ fn = "map_colors"
    /\ Len(mapPalette) = 1
    /\ Cardinality(mapColors) = 3
    /\ DOMAIN mapOut = mapColors

\* C9: every image color maps to the click point of a palette entry than which
\* none is nearer and none of the earlier ones is as near; so with one swatch
\* every color maps to its point, and {(255,0,0),(0,255,0)} against
\* [((250,10,10),(5,5)), ((10,250,10),(15,15))] maps to (5,5) and (15,15).
C9_MapsToFirstNearest ==
    fn = "map_colors" =>
        /\ \A c \in DOMAIN mapOut :
              \E i \in 1..Len(mapPalette) :
                 /\ mapOut[c] = mapPalette[i][2]
                 /\ \A j \in 1..Len(mapPalette) :
                       /\ Distance(c, mapPalette[j][1]) >= Distance(c, mapPalette[i][1])
                       /\ j < i => Distance(c, mapPalette[j][1]) > Distance(c, mapPalette[i][1])
        /\ Len(mapPalette) = 1 =>
              \A c \in mapColors : c \in DOMAIN mapOut /\ mapOut[c] = mapPalette[1][2]
        /\ (mapColors = {Red, Green}
            /\ mapPalette = << <<NearRed, <<5, 5>>>>, <<NearGreen, <<15, 15>>>> >>)
           => /\ DOMAIN mapOut = {Red, Green}
              /\ mapOut[Red] = <<5, 5>>
              /\ mapOut[Green] = <<15, 15>>

\* C9 witness: a color mapped against two equally near swatches at different
\* points.
C9_Witness ==
    /\ fn = "map_colors"
    /\ Len(mapPalette) = 2
    /\ mapPalette[1][1] = mapPalette[2][1]
    /\ mapPalette[1][2] # mapPalette[2][2]
    /\ Red \in DOMAIN mapOut

\* C10: a failed click is the last click of the run: it is not tried again and
\* nothing is clicked after it; when it was a click of the clearing, draw_image
\* is never entered.
C10_NoClickAfterFailure ==
    \A i \in 1..Len(clicks) :
        ~clicks[i].ok =>
            /\ i = Len(clicks)
            /\ pc \in {"final", "finally", "done"}
            /\ clicks[i].kind \in ClearingKinds =>
                  color_map = None /\ "draw" \notin phaseDone /\ "clear" \notin phaseDone

\* C10 witness: the run has ended after a click of the clearing failed with
\* cells still to clear.
C10_Witness ==
    /\ pc = "done"
    /\ clicks # <<>>
    /\ ~clicks[Len(clicks)].ok
    /\ clicks[Len(clicks)].kind = "clear_cell"
    /\ Len(clicks) < 1 + cell_cols * cell_rows

\* C11 (as claimed): the run is reported as successfully completed only when
\* the whole sequence of operations was executed, that is when the drawing,
\* and before it the clearing if one was asked for, ran to its end.
C11_SuccessOnlyAfterFullRun ==
    "success" \in phaseDone =>
        /\ "draw" \in phaseDone
        /\ clear_first => "clear" \in phaseDone

\* C12 (as claimed): when the state is stopped while get_click waits for a
\* point, the wait ends and the run comes to its end.
C12_StopEndsPick == (stopPhase = "pick" /\ pc = "pick_wait") ~> (pc = "done")

\* C13: when stop() takes effect before or during the countdown of execute(),
\* no click is ever dispatched.
C13_NoClickAfterEarlyStop ==
    stopPhase \in {"setup", "pick", "preview", "countdown"} => clicks = <<>>

\* C13 witness: the state was stopped during the countdown of a run that was
\* to clear the canvas, and the run has ended.
C13_Witness ==
    /\ stopPhase = "countdown"
    /\ clear_first
    /\ eraser_pos # None
    /\ pc = "done"

\* C14: when stop() takes effect while the execution thread waits in the loop
\* of wait_while_paused during the countdown, the clearing or the drawing, the
\* state is not paused for the rest of the wait, so the next poll of the loop
\* ends it; the thread goes from the wait to the end of execute() and no click
\* is dispatched after the stop.
C14_StopEndsPausedWait ==
    (stopInWait /\ stopPhase \in {"countdown", "clearing", "drawing"}) =>
        /\ ~running
        /\ pc \in WaitPcs => ~paused
        /\ pc \in WaitPcs \cup {"final", "finally", "done"}
        /\ Len(clicks) = stopClicks

\* C14 witness: the state was stopped during a paused wait of the clearing,
\* after clicks had been made, and the run has ended.
C14_Witness ==
    /\ stopInWait
    /\ stopPhase = "clearing"
    /\ stopClicks >= 2
    /\ pc = "done"

\* C15: in the clearing and in the drawing a click is dispatched only when the
\* last polls of the iteration saw the state running and not paused; once a
\* poll has seen it stopped the thread is out of the phase.
C15_PollsBeforeClicks ==
    /\ [](Phase \in {"clearing", "drawing"} => seenRunning # "no")
    /\ [][clicks' # clicks => (seenRunning = "yes" /\ seenPaused = "no")]_vars

\* C15 witness: an iteration of the drawing has seen the state paused and
\* waits, its clicks not dispatched.
C15_Witness ==
    /\ pc = "wwp_running"
    /\ wwpCaller = "draw_iter"
    /\ seenPaused = "yes"
    /\ Len(clicks) = 2 * idx
    /\ idx >= 1

\* C16: when run() has returned, the keyboard listener is stopped.
C16_ListenerStoppedAtReturn == pc = "done" => ~kbd

\* C16 witness: run() has returned after a complete drawing, the state still
\* running, so no ESC has ended the listener.
C16_Witness == pc = "done" /\ running /\ "draw" \in phaseDone

\* n is max(1, extent div cell)
IsCount(n, extent, cell) ==
    IF extent < cell THEN n = 1
    ELSE n * cell <= extent /\ extent < (n + 1) * cell

\* C17: before the orientation is corrected, cols is max(1, width div
\* avgCellWidth) and rows is max(1, height div avgCellHeight) for the
\* rectangle around the candidates, both at least 1; ten 20x20 cells over
\* ((0,300),(200,500)) give (10, 10).
C17_GridSizing ==
    fn = "detect_canvas" =>
        LET box == BoundingBox(candidates)
            aw == MeanInt(Widths(candidates))
            ah == MeanInt(Heights(candidates))
        IN  /\ gridSized[1] >= 1
            /\ gridSized[2] >= 1
            /\ IsCount(gridSized[1], box[2][1] - box[1][1], aw)
            /\ IsCount(gridSized[2], box[2][2] - box[1][2], ah)
            /\ candidates = TenCells =>
                  /\ box = << <<0, 300>>, <<200, 500>> >>
                  /\ aw = 20 /\ ah = 20
                  /\ gridSized = <<10, 10>>

\* C17 witness: the grid of the ten 20x20 cells has been computed.
C17_Witness ==
    /\ fn = "detect_canvas"
    /\ candidates = TenCells
    /\ gridSized = <<10, 10>>

\* C18: correcting a corrected grid changes nothing; the corrected grid is the
\* sized one or its swap; with assume_portrait it has cols <= rows, and
\* without it the grid is left as sized.
C18_OrientationCorrection ==
    fn = "detect_canvas" =>
        /\ OrientationCorrection(assume_portrait, gridOriented) = gridOriented
        /\ gridOriented \in {gridSized, <<gridSized[2], gridSized[1]>>}
        /\ assume_portrait => gridOriented[1] <= gridOriented[2]
        /\ ~assume_portrait => gridOriented = gridSized

\* C18 witness: a grid sized wider than high has been swapped.
C18_Witness ==
    /\ fn = "detect_canvas"
    /\ assume_portrait
    /\ gridSized[1] > gridSized[2]
    /\ gridOriented = <<gridSized[2], gridSized[1]>>

\* C19 (as claimed): when setup has returned True the grid has cols >= 1 and
\* rows >= 1.
C19_SetupLeavesPositiveGrid ==
    pc = "after_setup" => (cell_cols >= 1 /\ cell_rows >= 1)

\* C20 (as claimed): once detect_canvas has found the canvas, the grid it
\* computed is never recomputed or overwritten.
C20_DetectedGridStays ==
    [][canvas_auto => (cell_cols' = cell_cols /\ cell_rows' = cell_rows)]_vars

\* C21: the palette Rect that detection returns contains every kept swatch:
\* for each kept circle, topLeft.x <= cx - r, topLeft.y <= cy - r,
\* cx + r <= bottomRight.x and cy + r <= bottomRight.y, also for a circle
\* whose centre is nearer to the screen's edge than its radius.
C21_PaletteRectBoundsSwatches ==
    (fn = "detect_palette" /\ paletteOut.circles # <<>>) =>
        \A i \in DOMAIN paletteOut.circles :
            LET c == paletteOut.circles[i] IN
            /\ paletteOut.top_left[1] <= c[1] - c[3]
            /\ paletteOut.top_left[2] <= c[2] - c[3]
            /\ c[1] + c[3] <= paletteOut.bottom_right[1]
            /\ c[2] + c[3] <= paletteOut.bottom_right[2]

\* C22: validation never fails, replaces every option it rejects (out of
\* range or wrongly typed) by that option's documented default (click_delay
\* 0.5, color_change_delay 0.08, clear_click_delay 0.5, failsafe_delay 0.01,
\* num_colors 10, the canvas-detection defaults) and leaves every other
\* option as it was, at load time and after setup applied its speed settings.
Rejected(k, x) ==
    IF k \in SizeKeys THEN ~(IsInt(x) /\ x.v > 0)
    ELSE ~(IsNumber(x) /\ Hundredths(x) > 0)

Given(k) ==
    IF fn = "update" /\ k \in DOMAIN cfgNew THEN cfgNew[k] ELSE cfgIn[k]

C22_ValidationRestoresDefaults ==
    fn \in {"validate", "update"} =>
        /\ ~cfgOut.raised
        /\ \A k \in SizeKeys \cup DelayKeys :
              (fn = "validate" \/ k \in DOMAIN cfgNew) =>
                  cfgOut.config[k] = IF Rejected(k, Given(k))
                                     THEN DefaultConfig[k] ELSE Given(k)
        /\ LET c == cfgOut.config["canvas_detection"] IN
           IsDict(c) /\ \A k \in CanvasKeys : CanvasAccepts(c, k, c[k])

\* C23: once stop() has taken effect, at most one more pointer click is
\* dispatched (the click whose is_running() poll had already passed), and the
\* execution thread does not come to dispatch another one.
C23_AtMostOneClickAfterStop ==
    stopPhase # "none" =>
        /\ Len(clicks) <= stopClicks + 1
        /\ pc = "clk_do" => Len(clicks) = stopClicks

C23_Witness ==
    /\ stopPhase = "drawing"
    /\ Len(clicks) = stopClicks + 1
    /\ clicks[Len(clicks)].kind = "swatch"
    /\ pc = "done"

\* C24: while the state is Paused (from the pause to the following resume or
\* stop) at most one pointer click is dispatched, and pausing and resuming
\* neither skips nor repeats a click: in Clearing the clicks made are always
\* the eraser click and the clicks of the first idx cells, in Drawing the
\* clicks of the first idx pixels and, when the cell click is next, the
\* swatch click of pixel idx + 1.
C24_PauseHoldsClicks ==
    /\ (running /\ paused) => pauseClicked <= 1
    /\ (Phase = "clearing" /\ pc # "clear_entry") =>
          /\ Len(clicks) = IF clk = "eraser" THEN 0 ELSE 1 + idx
          /\ \A i \in 2..Len(clicks) :
                /\ clicks[i].kind = "clear_cell"
                /\ clicks[i].pt = CellPoint((i - 2) % cell_cols, (i - 2) \div cell_cols)
    /\ (Phase = "drawing" /\ pc # "draw_entry") =>
          Len(DrawClicks) = 2 * idx + (IF clk = "draw_cell" THEN 1 ELSE 0)

\* C24 witness: a swatch click went out after the state had become paused,
\* and the execution thread now waits in the cell click for the resume.
C24_Witness ==
    /\ running /\ paused /\ pauseClicked = 1
    /\ pc = "wwp_running" /\ clk = "draw_cell"
    /\ idx >= 1

\* C25: the phases come in the order setup, preview, countdown, clearing (if
\* requested), drawing: a click is dispatched only after the setup succeeded,
\* the preview was confirmed and the countdown ran out with the state running;
\* clearing clicks are made only when clearing was requested, and all of them
\* come before the palette is captured and before every drawing click.
C25_PhasesInOrder ==
    /\ Phase \in {"preview", "countdown", "clearing", "drawing"}
          => "setup" \in phaseDone
    /\ Phase \in {"countdown", "clearing", "drawing"} => "preview" \in phaseDone
    /\ Phase \in {"clearing", "drawing"} => "countdown" \in phaseDone
    /\ clicks # <<>> => {"setup", "preview", "countdown"} \subseteq phaseDone
    /\ Phase = "clearing" => (clear_first /\ color_map = None)
    /\ (Phase = "drawing" /\ clear_first) => "clear" \in phaseDone
    /\ \A j \in 1..Len(clicks) :
          clicks[j].kind \in ClearingKinds =>
              /\ clear_first
              /\ \A i \in 1..j : clicks[i].kind \in ClearingKinds

\* C25 witness: a run with clearing has gone through all its phases.
C25_Witness ==
    /\ pc = "done"
    /\ clear_first
    /\ {"setup", "preview", "countdown", "clear", "draw"} \subseteq phaseDone
    /\ clicks[1].kind = "eraser"
    /\ clicks[Len(clicks)].kind = "draw_cell"

\* C26: every image cell (col, row, color) that downsampling to the grid's
\* resolution produces has 0 <= col < cols and 0 <= row < rows, for a portrait
\* and for a landscape grid.
C26_PixelsInsideGrid ==
    \A k \in DOMAIN optimized_pixels :
        /\ 0 <= optimized_pixels[k][1] /\ optimized_pixels[k][1] < cell_cols
        /\ 0 <= optimized_pixels[k][2] /\ optimized_pixels[k][2] < cell_rows

\* C27: when clearing was requested and the setup has succeeded, an eraser
\* position is set, so the clearing never starts without one; when clearing
\* was not requested, no eraser pick is asked for.
C27_EraserSetWhenClearing ==
    /\ ("setup" \in phaseDone /\ clear_first) => eraser_pos # None
    /\ (Phase = "clearing" /\ pc # "clear_entry") => eraser_pos # None
    /\ ~clear_first => (pickFor # "eraser" /\ eraser_pos = None)

\* C27 witness: the clearing is under way with the eraser the user picked
\* after picking the palette's corners.
C27_Witness ==
    /\ Phase = "clearing"
    /\ clk = "clear_cell"
    /\ eraser_pos # None
    /\ click_coords = eraser_pos

\* C28: no draw operation targets the eraser: when an eraser position is set,
\* the colour map sends no image colour to the eraser's click point, and no
\* swatch click of the drawing is made there.
C28_NoColorMapsToEraser ==
    eraser_pos # None =>
        /\ \A c \in DOMAIN color_map : color_map[c] # eraser_pos
        /\ \A i \in 1..Len(clicks) :
              clicks[i].kind = "swatch" => clicks[i].pt # eraser_pos

\* C29: every cell click of the clearing lies inside the canvas Rect,
\* topLeft.x <= x <= bottomRight.x - 1 and topLeft.y <= y <= bottomRight.y - 1,
\* and distinct grid cells are clicked at distinct points.
C29_CellClicksInsideAndDistinct ==
    fn = "clear_canvas" =>
        LET box == BoundingBox(candidates) IN
        /\ \A i \in DOMAIN clearPoints :
              /\ box[1][1] <= clearPoints[i][1]
              /\ clearPoints[i][1] <= box[2][1] - 1
              /\ box[1][2] <= clearPoints[i][2]
              /\ clearPoints[i][2] <= box[2][2] - 1
        /\ \A i, j \in DOMAIN clearPoints :
              i # j => clearPoints[i] # clearPoints[j]

\* the loop iterations of the current phase that have not begun; the eraser
\* click and the preparation of the drawing count as one more
IterationsLeft ==
    CASE pc \in {"clear_entry", "draw_entry"} \/ clk = "eraser"
            -> cell_cols * cell_rows + 1
      [] Phase = "clearing" -> cell_cols * cell_rows - idx
      [] Phase = "drawing" -> Len(optimized_pixels) - idx
      [] OTHER -> 0

\* the steps the current iteration can still take before its last click
StepsLeft ==
    LET base == IF clk = "swatch" THEN 6 ELSE 0 IN
    CASE pc \in {"clear_entry", "draw_entry", "clear_iter", "draw_iter"} -> 15
      [] pc \in {"wwp_paused", "wwp_running"} /\ wwpCaller # "click" -> 14
      [] pc = "wwp_return" /\ wwpCaller # "click" -> 13
      [] pc = "clk_running" -> base + 5
      [] pc = "clk_paused" -> base + 4
      [] pc \in {"wwp_paused", "wwp_running"} -> base + 3
      [] pc = "wwp_return" -> base + 2
      [] pc = "clk_do" -> base + 1
      [] OTHER -> 0

Rank == 16 * IterationsLeft + StepsLeft

\* C30: Clearing and Drawing terminate when every click returns and every
\* pause is followed by a resume or a stop: Rank is a natural number, every
\* step the execution thread takes inside a phase makes it smaller, and the
\* only exception is the loop of wait_while_paused(), which goes round only
\* after is_paused() returned True.
C30_PhaseStepsDecreaseRank ==
    /\ [](Phase \in {"clearing", "drawing"} => Rank >= 1)
    /\ [][(/\ Phase \in {"clearing", "drawing"}
           /\ Phase' = Phase
           /\ (pc' # pc \/ idx' # idx \/ clicks' # clicks))
          => \/ Rank' < Rank
             \/ /\ Rank' = Rank
                /\ pc = "wwp_paused" /\ pc' = "wwp_running" /\ paused
             \/ /\ Rank' = Rank
                /\ pc = "wwp_running" /\ pc' = "wwp_paused" /\ seenPaused = "yes"]_vars

\* C30 witness: a clearing and a drawing of two pixels or more have both run
\* to their end, and execute() has returned.
C30_Witness ==
    /\ pc = "final"
    /\ running
    /\ {"clear", "draw"} \subseteq phaseDone
    /\ Len(optimized_pixels) >= 2
    /\ Len(clicks) = 1 + cell_cols * cell_rows + 2 * Len(optimized_pixels)

====
